---- MODULE Spec2Model ----
(***************************************************************************)
(* katax-cli: the AST-based router updater (services/ast-router-updater.ts)*)
(* and its caller CodeGenerationService.updateMainRouter / generateCRUD    *)
(* (services/code-generation.service.ts).                                  *)
(*                                                                         *)
(* The router file src/api/routes.ts is the only state.  Its text is       *)
(* modelled by what the updater can observe of it: the sequence of         *)
(* top-level statements ts.createSourceFile yields, plus one flag telling  *)
(* whether the text is the output of ts.createPrinter (canonical layout)   *)
(* or text written by a template or by hand.                               *)
(*                                                                         *)
(* Indexes into statement arrays are 0-based as in the source, with -1 for *)
(* "not found"; At(s, i) reads s[i].                                       *)
(* Route paths are sequences of segments: <<"api","users">> is             *)
(* "/api/users" and <<>> is the empty string.                              *)
(***************************************************************************)
EXTENDS Integers, Sequences, FiniteSets, TLC

VARIABLES
    file,    \* text of routes.ts: [statements, printed]
    orig,    \* text of routes.ts before the first call
    prev,    \* text of routes.ts before the last call
    prev2,   \* text of routes.ts before the call preceding the last one
    last,    \* the last call: [op, config, routerName, routePath, wrote]
    last2,   \* the call preceding the last one
    ncalls,  \* number of calls made so far
    readable, \* whether fs.readFile of routes.ts succeeds
    outcome, \* how the last call ended: [status, result, reads, writes, operations]
    written, \* the generated files of src/api/<name>/ written so far
    pc,      \* concurrent addRoute callers: where each one is
    buf      \* concurrent addRoute callers: the sourceText each one read

vars == <<file, orig, prev, prev2, last, last2, ncalls,
          readable, outcome, written, pc, buf>>

\* the state the sequential updater calls leave alone
aux == <<readable, outcome, written, pc, buf>>

\* ------------------------------------------------------------------ bounds
MaxLen == 3

MaxCalls == 2

\* ------------------------------------------------- top-level statements
NoName == "<none>"

\* import <name> from '...'; name = NoName when the import clause has no
\* default binding (import { Router } from 'express', import * as x, import 'x')
ImportDeclaration(name) ==
    [kind |-> "ImportDeclaration", name |-> name]

StringLiteral(text) == [kind |-> "StringLiteral", text |-> text]

Identifier(text) == [kind |-> "Identifier", text |-> text]

\* <object>.<name>(<arguments>);
PropertyCall(object, name, arguments) ==
    [kind |-> "ExpressionStatement", isCall |-> TRUE, isPropertyAccess |-> TRUE,
     object |-> object, name |-> name, arguments |-> arguments]

\* export default <expr>;  /  export = <expr>;
ExportAssignment == [kind |-> "ExportAssignment"]

\* export * from '...';  (no export clause)  /  export { a, b };
ExportDeclaration(hasExportClause) ==
    [kind |-> "ExportDeclaration", hasExportClause |-> hasExportClause]

\* any other statement, e.g. const router = Router();
OtherStatement(id) == [kind |-> "Other", id |-> id]

isImportDeclaration(s) == s.kind = "ImportDeclaration"

isExpressionStatement(s) == s.kind = "ExpressionStatement"

isExportAssignment(s) == s.kind = "ExportAssignment"

isExportDeclaration(s) == s.kind = "ExportDeclaration"

At(s, i) == s[i + 1]

\* ------------------------------------------------------ parse and print
\* ts.createSourceFile(...).statements
createSourceFile(sourceText) == sourceText.statements

\* ts.factory.updateSourceFile + printer.printFile: the whole file is
\* re-emitted in the printer's layout
printFile(statements) == [statements |-> statements, printed |-> TRUE]

\* ------------------------------------------------------------- addRoute
\* variant: binds the name as a named import, import { <routerName> } from
createNamedImportDeclaration(routerName) == ImportDeclaration(NoName)

createImportDeclaration(routerName) == ImportDeclaration(routerName)

\* variant: registers with router.get instead of router.use
createRouteRegistrationWithGet(routerName, routePath) ==
    PropertyCall("router", "get", <<StringLiteral(routePath), Identifier(routerName)>>)

createRouteRegistration(routerName, routePath) ==
    PropertyCall("router", "use", <<StringLiteral(routePath), Identifier(routerName)>>)

RECURSIVE findFirstImport(_, _, _)
\* variant: stops at the first import
findFirstImport(statements, i, lastImportIndex) ==
    IF i >= Len(statements) THEN lastImportIndex
    ELSE IF isImportDeclaration(At(statements, i)) THEN i
    ELSE findFirstImport(statements, i + 1, lastImportIndex)

RECURSIVE findLastImport(_, _, _)
\* the loop of lines 93-98, from index i with the value found so far
findLastImport(statements, i, lastImportIndex) ==
    IF i >= Len(statements) THEN lastImportIndex
    ELSE findLastImport(statements, i + 1,
            IF isImportDeclaration(At(statements, i)) THEN i ELSE lastImportIndex)

RECURSIVE findLastExportDefault(_, _)
\* variant: without the break, the last match wins
findLastExportDefault(statements, i) ==
    IF i >= Len(statements) THEN -1
    ELSE LET later == findLastExportDefault(statements, i + 1) IN
         IF later # -1 THEN later
         ELSE IF isExportAssignment(At(statements, i)) THEN i
         ELSE IF isExportDeclaration(At(statements, i))
                 /\ ~At(statements, i).hasExportClause THEN i
         ELSE -1

RECURSIVE findExportDefault(_, _)
\* the loop of lines 101-116: the first export assignment or clause-less
\* export declaration
findExportDefault(statements, i) ==
    IF i >= Len(statements) THEN -1
    ELSE IF isExportAssignment(At(statements, i)) THEN i
    ELSE IF isExportDeclaration(At(statements, i))
            /\ ~At(statements, i).hasExportClause THEN i
    ELSE findExportDefault(statements, i + 1)

RECURSIVE insertLoopAfterExport(_, _, _, _, _, _)
\* variant: the registration is pushed at the export's own index
insertLoopAfterExport(statements, importToAdd, routeToAdd, lastImportIndex, exportDefaultIndex, st) ==
    LET i == st.i IN
    IF i >= Len(statements) THEN st
    ELSE
        LET r1 == Append(st.result, At(statements, i))
            doImport == i = lastImportIndex /\ ~st.importInserted
            r2 == IF doImport THEN Append(r1, importToAdd) ELSE r1
            doRoute == exportDefaultIndex # -1 /\ i = exportDefaultIndex
                       /\ ~st.routeInserted
            r3 == IF doRoute THEN Append(r2, routeToAdd) ELSE r2
        IN insertLoopAfterExport(statements, importToAdd, routeToAdd,
                      lastImportIndex, exportDefaultIndex,
                      [i |-> i + 1, result |-> r3,
                       importInserted |-> st.importInserted \/ doImport,
                       routeInserted |-> st.routeInserted \/ doRoute])

RECURSIVE insertLoopRouteBeforeImport(_, _, _, _, _, _)
\* variant: in one iteration the registration is pushed before the import
insertLoopRouteBeforeImport(statements, importToAdd, routeToAdd, lastImportIndex, exportDefaultIndex, st) ==
    LET i == st.i IN
    IF i >= Len(statements) THEN st
    ELSE
        LET r1 == Append(st.result, At(statements, i))
            doRoute == exportDefaultIndex # -1 /\ i = exportDefaultIndex - 1
                       /\ ~st.routeInserted
            r2 == IF doRoute THEN Append(r1, routeToAdd) ELSE r1
            doImport == i = lastImportIndex /\ ~st.importInserted
            r3 == IF doImport THEN Append(r2, importToAdd) ELSE r2
        IN insertLoopRouteBeforeImport(statements, importToAdd, routeToAdd,
                      lastImportIndex, exportDefaultIndex,
                      [i |-> i + 1, result |-> r3,
                       importInserted |-> st.importInserted \/ doImport,
                       routeInserted |-> st.routeInserted \/ doRoute])

RECURSIVE insertLoop(_, _, _, _, _, _)
\* the loop of lines 119-133; st = [i, result, importInserted, routeInserted]
insertLoop(statements, importToAdd, routeToAdd, lastImportIndex, exportDefaultIndex, st) ==
    LET i == st.i IN
    IF i >= Len(statements) THEN st
    ELSE
        LET r1 == Append(st.result, At(statements, i))
            doImport == i = lastImportIndex /\ ~st.importInserted
            r2 == IF doImport THEN Append(r1, importToAdd) ELSE r1
            doRoute == exportDefaultIndex # -1 /\ i = exportDefaultIndex - 1
                       /\ ~st.routeInserted
            r3 == IF doRoute THEN Append(r2, routeToAdd) ELSE r2
        IN insertLoop(statements, importToAdd, routeToAdd, lastImportIndex,
                      exportDefaultIndex,
                      [i |-> i + 1, result |-> r3,
                       importInserted |-> st.importInserted \/ doImport,
                       routeInserted |-> st.routeInserted \/ doRoute])

\* variant: the fallback puts the registration at the beginning
insertImportAndRouteRouteFirst(statements, importToAdd, routeToAdd) ==
    LET lastImportIndex == findLastImport(statements, 0, -1)
        exportDefaultIndex == findExportDefault(statements, 0)
        st == insertLoop(statements, importToAdd, routeToAdd, lastImportIndex,
                         exportDefaultIndex,
                         [i |-> 0, result |-> <<>>,
                          importInserted |-> FALSE, routeInserted |-> FALSE])
        withRoute == IF ~st.routeInserted THEN <<routeToAdd>> \o st.result
                     ELSE st.result
    IN  IF ~st.importInserted THEN <<importToAdd>> \o withRoute ELSE withRoute

\* variant: the fallback puts the import at the end
insertImportAndRouteImportLast(statements, importToAdd, routeToAdd) ==
    LET lastImportIndex == findLastImport(statements, 0, -1)
        exportDefaultIndex == findExportDefault(statements, 0)
        st == insertLoop(statements, importToAdd, routeToAdd, lastImportIndex,
                         exportDefaultIndex,
                         [i |-> 0, result |-> <<>>,
                          importInserted |-> FALSE, routeInserted |-> FALSE])
        withRoute == IF ~st.routeInserted THEN Append(st.result, routeToAdd)
                     ELSE st.result
    IN  IF ~st.importInserted THEN Append(withRoute, importToAdd) ELSE withRoute

\* variant: leaves out an import that the file has already
insertImportAndRouteDedup(statements, importToAdd, routeToAdd) ==
    LET lastImportIndex == findLastImport(statements, 0, -1)
        exportDefaultIndex == findExportDefault(statements, 0)
        present == \E k \in 1 .. Len(statements) : statements[k] = importToAdd
        st == insertLoop(statements, importToAdd, routeToAdd, lastImportIndex,
                         exportDefaultIndex,
                         [i |-> 0, result |-> <<>>,
                          importInserted |-> present, routeInserted |-> FALSE])
        withRoute == IF ~st.routeInserted THEN Append(st.result, routeToAdd)
                     ELSE st.result
    IN  IF ~st.importInserted THEN <<importToAdd>> \o withRoute ELSE withRoute

\* variant: the insertion loop starts at index 1
insertImportAndRouteFromOne(statements, importToAdd, routeToAdd) ==
    LET lastImportIndex == findLastImport(statements, 0, -1)
        exportDefaultIndex == findExportDefault(statements, 0)
        st == insertLoop(statements, importToAdd, routeToAdd, lastImportIndex,
                         exportDefaultIndex,
                         [i |-> 1, result |-> <<>>,
                          importInserted |-> FALSE, routeInserted |-> FALSE])
        withRoute == IF ~st.routeInserted THEN Append(st.result, routeToAdd)
                     ELSE st.result
    IN  IF ~st.importInserted THEN <<importToAdd>> \o withRoute ELSE withRoute

insertImportAndRoute(statements, importToAdd, routeToAdd) ==
    LET lastImportIndex == findLastImport(statements, 0, -1)
        exportDefaultIndex == findExportDefault(statements, 0)
        st == insertLoop(statements, importToAdd, routeToAdd, lastImportIndex,
                         exportDefaultIndex,
                         [i |-> 0, result |-> <<>>,
                          importInserted |-> FALSE, routeInserted |-> FALSE])
        withRoute == IF ~st.routeInserted THEN Append(st.result, routeToAdd)
                     ELSE st.result
    IN  IF ~st.importInserted THEN <<importToAdd>> \o withRoute ELSE withRoute

\* the text written by addRoute(routesFilePath, update)
addRoute(sourceText, update) ==
    printFile(insertImportAndRoute(createSourceFile(sourceText),
                  createImportDeclaration(update.routerName),
                  createRouteRegistration(update.routerName, update.routePath)))

\* --------------------------------------------------------------- queries
\* variant: also answers true for a named or namespace binding
importExistsAnyBinding(sourceText, routerName) ==
    \E i \in 0 .. Len(createSourceFile(sourceText)) - 1 :
        LET statement == At(createSourceFile(sourceText), i) IN
        /\ isImportDeclaration(statement)
        /\ \/ statement.name = routerName
           \/ "named" \in DOMAIN statement /\ statement.named = routerName

importExists(sourceText, routerName) ==
    \E i \in 0 .. Len(createSourceFile(sourceText)) - 1 :
        LET statement == At(createSourceFile(sourceText), i) IN
        /\ isImportDeclaration(statement)
        /\ statement.name = routerName

\* variant: looks at calls on router only
routeExistsOnRouter(sourceText, routePath) ==
    \E i \in 0 .. Len(createSourceFile(sourceText)) - 1 :
        LET statement == At(createSourceFile(sourceText), i) IN
        /\ isExpressionStatement(statement)
        /\ statement.isCall
        /\ statement.isPropertyAccess
        /\ statement.object = "router"
        /\ statement.name = "use"
        /\ Len(statement.arguments) > 0
        /\ statement.arguments[1].kind = "StringLiteral"
        /\ statement.arguments[1].text = routePath

routeExists(sourceText, routePath) ==
    \E i \in 0 .. Len(createSourceFile(sourceText)) - 1 :
        LET statement == At(createSourceFile(sourceText), i) IN
        /\ isExpressionStatement(statement)
        /\ statement.isCall
        /\ statement.isPropertyAccess
        /\ statement.name = "use"
        /\ Len(statement.arguments) > 0
        /\ statement.arguments[1].kind = "StringLiteral"
        /\ statement.arguments[1].text = routePath

\* ----------------------------------------------------------- removeRoute
\* variant: filters the import only
removeRouteKeepsRegistrations(statement, routerName) ==
    IF isImportDeclaration(statement) /\ statement.name = routerName THEN FALSE
    ELSE TRUE

\* variant: filters a registration only when its method is use
removeRouteKeepsNonUse(statement, routerName) ==
    IF isImportDeclaration(statement) /\ statement.name = routerName THEN FALSE
    ELSE IF /\ isExpressionStatement(statement)
            /\ statement.isCall
            /\ statement.isPropertyAccess
            /\ statement.name = "use"
            /\ Len(statement.arguments) > 1
            /\ statement.arguments[2].kind = "Identifier"
            /\ statement.arguments[2].text = routerName THEN FALSE
    ELSE TRUE

\* variant: does not look at the form of the callee
removeRouteKeepsAnyCallee(statement, routerName) ==
    IF isImportDeclaration(statement) /\ statement.name = routerName THEN FALSE
    ELSE IF /\ isExpressionStatement(statement)
            /\ statement.isCall
            /\ Len(statement.arguments) > 1
            /\ statement.arguments[2].kind = "Identifier"
            /\ statement.arguments[2].text = routerName THEN FALSE
    ELSE TRUE

\* variant: an import without default binding is filtered out as well
removeRouteKeepsDefaultImports(statement, routerName) ==
    IF isImportDeclaration(statement)
       /\ (statement.name = routerName \/ statement.name = NoName) THEN FALSE
    ELSE IF /\ isExpressionStatement(statement)
            /\ statement.isCall
            /\ statement.isPropertyAccess
            /\ Len(statement.arguments) > 1
            /\ statement.arguments[2].kind = "Identifier"
            /\ statement.arguments[2].text = routerName THEN FALSE
    ELSE TRUE

\* the filter callback of lines 217-243: TRUE when the statement is kept
removeRouteKeeps(statement, routerName) ==
    IF isImportDeclaration(statement) /\ statement.name = routerName THEN FALSE
    ELSE IF /\ isExpressionStatement(statement)
            /\ statement.isCall
            /\ statement.isPropertyAccess
            /\ Len(statement.arguments) > 1
            /\ statement.arguments[2].kind = "Identifier"
            /\ statement.arguments[2].text = routerName THEN FALSE
    ELSE TRUE

\* the text written by removeRoute(routesFilePath, routerName)
removeRoute(sourceText, routerName) ==
    LET Keep(statement) == removeRouteKeeps(statement, routerName)
    IN printFile(SelectSeq(createSourceFile(sourceText), Keep))

\* ------------------------------------------- CodeGenerationService (caller)
\* String.prototype.toLowerCase on the resource names of the model
toLowerCase(name) == IF name = "Products" THEN "products" ELSE name

\* config.path.replace(/^\/api/, '')
replaceApiPrefix(path) ==
    IF Len(path) > 0 /\ Head(path) = "api" THEN Tail(path) ELSE path

routerNameOf(config) == toLowerCase(config.name) \o "Router"

\* config.path.replace(/^\/api/, '') || `/${config.name.toLowerCase()}`
routePathOf(config) ==
    IF replaceApiPrefix(config.path) = <<>> THEN <<toLowerCase(config.name)>>
    ELSE replaceApiPrefix(config.path)

\* variant: skips when the import is there and the route is not
alreadyExistsNegated(hasImport, hasRoute) == hasImport /\ ~hasRoute

\* the guard of line 160: TRUE when addRoute is skipped
alreadyExists(hasImport, hasRoute) == hasImport /\ hasRoute

\* updateMainRouter(projectPath, config): the text of routes.ts afterwards
\* and whether it was written
updateMainRouter(sourceText, config) ==
    IF alreadyExists(importExists(sourceText, routerNameOf(config)),
                     routeExists(sourceText, routePathOf(config)))
    THEN [text |-> sourceText, wrote |-> FALSE]
    ELSE [text |-> addRoute(sourceText, [routerName |-> routerNameOf(config),
                                         routePath |-> routePathOf(config)]),
          wrote |-> TRUE]

\* the operations array of generateCRUD (lines 124-129), as endpoint configs
crudOperations(resourceName) ==
    << [name |-> resourceName, path |-> <<"api", toLowerCase(resourceName)>>],
       [name |-> resourceName, path |-> <<"api", toLowerCase(resourceName)>>],
       [name |-> resourceName, path |-> <<"api", toLowerCase(resourceName), ":id">>],
       [name |-> resourceName, path |-> <<"api", toLowerCase(resourceName), ":id">>] >>

RECURSIVE textBeforeOperation(_, _, _)
\* generateCRUD's loop (lines 131-142): the text of routes.ts when operation
\* k (1-based) starts, the loop having started on sourceText
textBeforeOperation(sourceText, operations, k) ==
    IF k = 1 THEN sourceText
    ELSE updateMainRouter(textBeforeOperation(sourceText, operations, k - 1),
                          operations[k - 1]).text

\* ------------------------------------------------------------ the calls
NoConfig == [name |-> NoName, path |-> <<>>]

NoCall == [op |-> "none", config |-> NoConfig, routerName |-> NoName,
           routePath |-> <<>>, wrote |-> FALSE]

Call(op, config, routerName, routePath, wrote) ==
    [op |-> op, config |-> config, routerName |-> routerName,
     routePath |-> routePath, wrote |-> wrote]

\* the statements router files of the model are made of
StmtUniverse ==
    { ImportDeclaration("usersRouter"),
      ImportDeclaration(NoName),
      PropertyCall("router", "use", <<StringLiteral(<<"users">>), Identifier("usersRouter")>>),
      PropertyCall("router", "use", <<StringLiteral(<<"users">>), Identifier("adminRouter")>>),
      PropertyCall("router", "get", <<StringLiteral(<<"users">>), Identifier("usersRouter")>>),
      ExportAssignment,
      ExportDeclaration(FALSE),
      ExportDeclaration(TRUE),
      OtherStatement(1),
      OtherStatement(2) }

\* the statements of the router files the caller starts from
CallerUniverse ==
    { ImportDeclaration("usersRouter"),
      PropertyCall("router", "use", <<StringLiteral(<<"users">>), Identifier("usersRouter")>>),
      PropertyCall("router", "use", <<StringLiteral(<<"users">>), Identifier("adminRouter")>>),
      ExportAssignment,
      OtherStatement(1) }

SeqsUpTo(S, n) == UNION { [1 .. k -> S] : k \in 0 .. n }

\* the requests addRoute is called with
Updates ==
    { [routerName |-> "usersRouter", routePath |-> <<"users">>],
      [routerName |-> "productsRouter", routePath |-> <<"users">>],
      [routerName |-> "productsRouter", routePath |-> <<"products">>] }

RouterNames == {"usersRouter", "productsRouter"}

ResourceNames == {"users", "Products"}

Configs ==
    [name : ResourceNames,
     path : { <<"api", "users">>, <<"api", "users", ":id">>, <<"api">> }]

\* no call has ended yet
NoOutcome == [status |-> "none", result |-> FALSE, reads |-> 0, writes |-> 0,
              operations |-> 0]

Callers == {"A", "B"}

AuxInit ==
    /\ readable = TRUE
    /\ outcome = NoOutcome
    /\ written = {}
    /\ pc = [c \in Callers |-> "idle"]
    /\ buf = [c \in Callers |-> [statements |-> <<>>, printed |-> FALSE]]

InitWith(universe) ==
    /\ \E statements \in SeqsUpTo(universe, MaxLen) :
          file = [statements |-> statements, printed |-> FALSE]
    /\ orig = file
    /\ prev = file
    /\ prev2 = file
    /\ last = NoCall
    /\ last2 = NoCall
    /\ ncalls = 0
    /\ AuxInit

Init == InitWith(StmtUniverse)

InitCaller == InitWith(CallerUniverse)

Record(call) ==
    /\ ncalls < MaxCalls
    /\ ncalls' = ncalls + 1
    /\ prev2' = prev
    /\ prev' = file
    /\ last2' = last
    /\ last' = call
    /\ orig' = orig
    /\ UNCHANGED aux

\* variant: works on the text the call before it had read
AddRouteStale ==
    \E update \in Updates :
        /\ file' = addRoute(prev, update)
        /\ Record(Call("addRoute", NoConfig, update.routerName, update.routePath, TRUE))

AddRoute ==
    \E update \in Updates :
        /\ file' = addRoute(file, update)
        /\ Record(Call("addRoute", NoConfig, update.routerName, update.routePath, TRUE))

RemoveRoute ==
    \E routerName \in RouterNames :
        /\ file' = removeRoute(file, routerName)
        /\ Record(Call("removeRoute", NoConfig, routerName, <<>>, TRUE))

UpdateMainRouter ==
    \E config \in Configs :
        /\ file' = updateMainRouter(file, config).text
        /\ Record(Call("updateMainRouter", config, routerNameOf(config),
                       routePathOf(config), updateMainRouter(file, config).wrote))

\* generateCRUD: four updateMainRouter calls in a row; the last two of
\* them are the calls recorded
GenerateCRUD ==
    \E resourceName \in ResourceNames :
        LET operations == crudOperations(resourceName)
            before3 == textBeforeOperation(file, operations, 3)
            before4 == textBeforeOperation(file, operations, 4)
            result3 == updateMainRouter(before3, operations[3])
            result4 == updateMainRouter(before4, operations[4])
        IN  /\ ncalls < MaxCalls
            /\ ncalls' = ncalls + 1
            /\ file' = result4.text
            /\ prev2' = before3
            /\ prev' = before4
            /\ last2' = Call("updateMainRouter", operations[3],
                             routerNameOf(operations[3]),
                             routePathOf(operations[3]), result3.wrote)
            /\ last' = Call("updateMainRouter", operations[4],
                            routerNameOf(operations[4]),
                            routePathOf(operations[4]), result4.wrote)
            /\ orig' = orig
            /\ UNCHANGED aux

Next == AddRoute \/ RemoveRoute

Spec == Init /\ [][Next]_vars

\* addRoute calls only, from any file
NextAdd == AddRoute

SpecAdd == Init /\ [][NextAdd]_vars

NextCaller == UpdateMainRouter \/ GenerateCRUD

SpecCaller == InitCaller /\ [][NextCaller]_vars

\* ------------------------------------- the calls with their I/O outcomes
MaxIOLen == 2

MaxIOCalls == 1

\* a call <name>(<arguments>); whose callee is a plain identifier
PlainCall(name, arguments) ==
    [kind |-> "ExpressionStatement", isCall |-> TRUE, isPropertyAccess |-> FALSE,
     object |-> "", name |-> name, arguments |-> arguments]

\* an expression statement that is no call, e.g. 'use strict';
NonCallExpression ==
    [kind |-> "ExpressionStatement", isCall |-> FALSE, isPropertyAccess |-> FALSE,
     object |-> "", name |-> "", arguments |-> <<>>]

\* import { <named> } from '...';  /  import * as <named> from '...';
\* the import clause has no default binding (importClause.name undefined)
NamedImportDeclaration(named) ==
    [kind |-> "ImportDeclaration", name |-> NoName, named |-> named]

\* a block or function body: its statements are not top-level statements
\* of the source file
BlockStatement(body) == [kind |-> "Other", id |-> "block", body |-> body]

\* a statement ts.createSourceFile built by error recovery: the parser
\* reports diagnostics and still returns a node, it does not throw
RecoveredStatement == OtherStatement("recovered")

\* the source text has syntax errors
IsMalformed(sourceText) ==
    \E k \in 1 .. Len(sourceText.statements) :
        sourceText.statements[k] = RecoveredStatement

\* the awaited fs.readFile rejected: the call rejects with that error,
\* nothing after the read has run
ReadError == [status |-> "error", result |-> FALSE, reads |-> 1, writes |-> 0,
              operations |-> 0]

Completed(result, writes) ==
    [status |-> "ok", result |-> result, reads |-> 1, writes |-> writes,
     operations |-> 0]

\* addRoute(routesFilePath, update) as a call: the text of the file
\* afterwards and how the call ended
addRouteCall(canRead, sourceText, update) ==
    IF ~canRead THEN [text |-> sourceText, outcome |-> ReadError]
    ELSE [text |-> addRoute(sourceText, update), outcome |-> Completed(FALSE, 1)]

removeRouteCall(canRead, sourceText, routerName) ==
    IF ~canRead THEN [text |-> sourceText, outcome |-> ReadError]
    ELSE [text |-> removeRoute(sourceText, routerName),
          outcome |-> Completed(FALSE, 1)]

\* variant: re-emits the file it has parsed
importExistsCallReprinting(canRead, sourceText, routerName) ==
    IF ~canRead THEN [text |-> sourceText, outcome |-> ReadError]
    ELSE [text |-> printFile(createSourceFile(sourceText)),
          outcome |-> Completed(importExists(sourceText, routerName), 1)]

\* variant: answers false when the file cannot be read
importExistsCallSwallowing(canRead, sourceText, routerName) ==
    IF ~canRead THEN [text |-> sourceText, outcome |-> Completed(FALSE, 0)]
    ELSE [text |-> sourceText,
          outcome |-> Completed(importExists(sourceText, routerName), 0)]

importExistsCall(canRead, sourceText, routerName) ==
    IF ~canRead THEN [text |-> sourceText, outcome |-> ReadError]
    ELSE [text |-> sourceText,
          outcome |-> Completed(importExists(sourceText, routerName), 0)]

routeExistsCall(canRead, sourceText, routePath) ==
    IF ~canRead THEN [text |-> sourceText, outcome |-> ReadError]
    ELSE [text |-> sourceText,
          outcome |-> Completed(routeExists(sourceText, routePath), 0)]

\* the statements of the files the calls are tried on
IOUniverse ==
    { ImportDeclaration("usersRouter"),
      ImportDeclaration(NoName),
      PropertyCall("router", "use", <<StringLiteral(<<"users">>), Identifier("usersRouter")>>),
      PropertyCall("app", "use", <<StringLiteral(<<"users">>), Identifier("adminRouter")>>),
      PropertyCall("router", "use", <<Identifier("usersRouter")>>),
      PropertyCall("router", "get", <<StringLiteral(<<"users">>), Identifier("usersRouter")>>),
      PlainCall("use", <<StringLiteral(<<"users">>), Identifier("usersRouter")>>),
      NonCallExpression,
      ExportAssignment,
      RecoveredStatement,
      NamedImportDeclaration("usersRouter"),
      BlockStatement(<<ImportDeclaration("usersRouter")>>) }

IOUpdates ==
    { [routerName |-> "usersRouter", routePath |-> <<"users">>],
      [routerName |-> "productsRouter", routePath |-> <<"products">>] }

RoutePaths == { <<"users">>, <<"products">> }

InitIO ==
    /\ \E statements \in SeqsUpTo(IOUniverse, MaxIOLen) :
          file = [statements |-> statements, printed |-> FALSE]
    /\ orig = file
    /\ prev = file
    /\ prev2 = file
    /\ last = NoCall
    /\ last2 = NoCall
    /\ ncalls = 0
    /\ readable \in BOOLEAN
    /\ outcome = NoOutcome
    /\ written = {}
    /\ pc = [c \in Callers |-> "idle"]
    /\ buf = [c \in Callers |-> [statements |-> <<>>, printed |-> FALSE]]

\* one call on the file, ended as r = [text, outcome]
RecordIO(call, r) ==
    /\ ncalls < MaxIOCalls
    /\ ncalls' = ncalls + 1
    /\ file' = r.text
    /\ outcome' = r.outcome
    /\ prev2' = prev
    /\ prev' = file
    /\ last2' = last
    /\ last' = call
    /\ UNCHANGED <<orig, readable, written, pc, buf>>

CallAddRoute ==
    \E update \in IOUpdates :
        RecordIO(Call("addRoute", NoConfig, update.routerName, update.routePath,
                      addRouteCall(readable, file, update).outcome.writes > 0),
                 addRouteCall(readable, file, update))

CallRemoveRoute ==
    \E routerName \in RouterNames :
        RecordIO(Call("removeRoute", NoConfig, routerName, <<>>,
                      removeRouteCall(readable, file, routerName).outcome.writes > 0),
                 removeRouteCall(readable, file, routerName))

CallImportExists ==
    \E routerName \in RouterNames :
        RecordIO(Call("importExists", NoConfig, routerName, <<>>,
                      importExistsCall(readable, file, routerName).outcome.writes > 0),
                 importExistsCall(readable, file, routerName))

CallRouteExists ==
    \E routePath \in RoutePaths :
        RecordIO(Call("routeExists", NoConfig, NoName, routePath,
                      routeExistsCall(readable, file, routePath).outcome.writes > 0),
                 routeExistsCall(readable, file, routePath))

NextIO == CallAddRoute \/ CallRemoveRoute \/ CallImportExists \/ CallRouteExists

SpecIO == InitIO /\ [][NextIO]_vars

\* ------------------------------- two unsynchronized callers of addRoute
\* what each caller adds
RaceUpdate(c) ==
    IF c = "A" THEN [routerName |-> "usersRouter", routePath |-> <<"users">>]
    ELSE [routerName |-> "productsRouter", routePath |-> <<"products">>]

InitRace ==
    /\ InitWith(CallerUniverse)

\* line 21: await fs.readFile; the caller is suspended with the text it read
RaceRead(c) ==
    /\ pc[c] = "idle"
    /\ pc' = [pc EXCEPT ![c] = "read"]
    /\ buf' = [buf EXCEPT ![c] = file]
    /\ UNCHANGED <<file, orig, prev, prev2, last, last2, ncalls,
                   readable, outcome, written>>

\* variant: reads the file again when it writes
RaceWriteFresh(c) ==
    /\ pc[c] = "read"
    /\ pc' = [pc EXCEPT ![c] = "done"]
    /\ file' = addRoute(file, RaceUpdate(c))
    /\ prev2' = prev
    /\ prev' = file
    /\ last2' = last
    /\ last' = Call("addRoute", NoConfig, RaceUpdate(c).routerName,
                    RaceUpdate(c).routePath, TRUE)
    /\ ncalls' = ncalls + 1
    /\ outcome' = Completed(FALSE, 1)
    /\ UNCHANGED <<orig, readable, written, buf>>

\* lines 22-42: parse, insert and print the text read, then await
\* fs.writeFile of the whole file
RaceWrite(c) ==
    /\ pc[c] = "read"
    /\ pc' = [pc EXCEPT ![c] = "done"]
    /\ file' = addRoute(buf[c], RaceUpdate(c))
    /\ prev2' = prev
    /\ prev' = file
    /\ last2' = last
    /\ last' = Call("addRoute", NoConfig, RaceUpdate(c).routerName,
                    RaceUpdate(c).routePath, TRUE)
    /\ ncalls' = ncalls + 1
    /\ outcome' = Completed(FALSE, 1)
    /\ UNCHANGED <<orig, readable, written, buf>>

NextRace ==
    \/ \E c \in Callers : RaceRead(c)
    \/ \E c \in Callers : RaceWrite(c)

SpecRace == InitRace /\ [][NextRace]_vars

\* ------------------- one addRoute and one removeRoute, step by step
\* caller A runs addRoute, caller B runs removeRoute
PipelineOp(c) == IF c = "A" THEN "addRoute" ELSE "removeRoute"

\* lines 22-40 and 210-247: what the call computes from the text it read,
\* synchronously, between its two awaits
PipelineTransform(c, sourceText) ==
    IF PipelineOp(c) = "addRoute" THEN addRoute(sourceText, RaceUpdate("A"))
    ELSE removeRoute(sourceText, "usersRouter")

InitPipeline ==
    /\ InitWith(CallerUniverse)

\* variant: the file is opened for writing, and so emptied, before it is read
PipeReadTruncating(c) ==
    /\ pc[c] = "idle"
    /\ pc' = [pc EXCEPT ![c] = "read"]
    /\ file' = [statements |-> <<>>, printed |-> FALSE]
    /\ buf' = [buf EXCEPT ![c] = file']
    /\ UNCHANGED <<orig, prev, prev2, last, last2, ncalls,
                   readable, outcome, written>>

\* lines 21 and 209: await fs.readFile, the first step of the call
PipeRead(c) ==
    /\ pc[c] = "idle"
    /\ pc' = [pc EXCEPT ![c] = "read"]
    /\ buf' = [buf EXCEPT ![c] = file]
    /\ UNCHANGED <<file, orig, prev, prev2, last, last2, ncalls,
                   readable, outcome, written>>

\* lines 22-42 and 210-249: transform and print with no await, then await
\* fs.writeFile of the whole text, the last step of the call
PipeWrite(c) ==
    /\ pc[c] = "read"
    /\ pc' = [pc EXCEPT ![c] = "done"]
    /\ file' = PipelineTransform(c, buf[c])
    /\ prev2' = prev
    /\ prev' = file
    /\ last2' = last
    /\ last' = Call(PipelineOp(c), NoConfig, "usersRouter",
                    IF PipelineOp(c) = "addRoute" THEN RaceUpdate("A").routePath
                    ELSE <<>>, TRUE)
    /\ ncalls' = ncalls + 1
    /\ outcome' = Completed(FALSE, 1)
    /\ UNCHANGED <<orig, readable, written, buf>>

NextPipeline ==
    \/ \E c \in Callers : PipeRead(c)
    \/ \E c \in Callers : PipeWrite(c)

SpecPipeline == InitPipeline /\ [][NextPipeline]_vars

\* --------------------------- generateEndpoint and generateCRUD as calls
\* the path of a generated file, relative to src/api/<name>/
GeneratedFile(config, layer) == toLowerCase(config.name) \o "." \o layer \o ".ts"

\* the files generateEndpoint writes in steps 1 to 6 (lines 46-102)
generatedFiles(config, database) ==
    (IF config.addValidation THEN {GeneratedFile(config, "validator")} ELSE {})
    \cup (IF database /\ config.fields
          THEN {GeneratedFile(config, "repository")} ELSE {})
    \cup {GeneratedFile(config, "controller"),
          GeneratedFile(config, "handler"),
          GeneratedFile(config, "routes")}
    \cup (IF database /\ config.fields
          THEN {GeneratedFile(config, "factory")} ELSE {})

\* updateMainRouter as a call: its first await, importExists, rejects when
\* routes.ts cannot be read
updateMainRouterCall(canRead, sourceText, config) ==
    IF ~canRead THEN [text |-> sourceText, outcome |-> ReadError]
    ELSE [text |-> updateMainRouter(sourceText, config).text,
          outcome |-> [status |-> "ok", result |-> FALSE, reads |-> 2,
                       writes |-> IF updateMainRouter(sourceText, config).wrote
                                  THEN 1 ELSE 0,
                       operations |-> 0]]

\* variant: removes the files it wrote when the router update fails
generateEndpointCallRollingBack(canRead, sourceText, files, config, database) ==
    LET r == updateMainRouterCall(canRead, sourceText, config)
    IN  [text |-> r.text,
         written |-> IF r.outcome.status = "error" THEN files
                     ELSE files \cup generatedFiles(config, database),
         outcome |-> r.outcome]

\* generateEndpoint(config, projectPath, database): routes.ts and the set of
\* generated files afterwards, and how the call ended
generateEndpointCall(canRead, sourceText, files, config, database) ==
    LET r == updateMainRouterCall(canRead, sourceText, config)
    IN  [text |-> r.text,
         written |-> files \cup generatedFiles(config, database),
         outcome |-> r.outcome]

\* the config generateCRUD builds for an operation (lines 132-139)
crudConfig(operation, fields) ==
    [name |-> operation.name, path |-> operation.path,
     addValidation |-> TRUE, fields |-> fields]

RECURSIVE crudLoop(_, _, _, _, _, _)
\* the loop of lines 131-142 from operation k on; a rejected
\* generateEndpoint ends it
crudLoop(canRead, st, operations, fields, database, k) ==
    IF k > Len(operations) \/ st.outcome.status = "error" THEN st
    ELSE LET r == generateEndpointCall(canRead, st.text, st.written,
                                       crudConfig(operations[k], fields), database)
         IN crudLoop(canRead,
                     [text |-> r.text, written |-> r.written,
                      outcome |-> [r.outcome EXCEPT !.operations = k]],
                     operations, fields, database, k + 1)

generateCRUDCall(canRead, sourceText, files, resourceName, fields, database) ==
    crudLoop(canRead,
             [text |-> sourceText, written |-> files, outcome |-> NoOutcome],
             crudOperations(resourceName), fields, database, 1)

\* the endpoint configs of the model; fields stands for fields.length > 0
EndpointConfigs ==
    [name : ResourceNames,
     path : { <<"api", "users">>, <<"api">> },
     addValidation : BOOLEAN,
     fields : BOOLEAN]

InitGen ==
    /\ \E statements \in SeqsUpTo(CallerUniverse, MaxIOLen) :
          file = [statements |-> statements, printed |-> FALSE]
    /\ orig = file
    /\ prev = file
    /\ prev2 = file
    /\ last = NoCall
    /\ last2 = NoCall
    /\ ncalls = 0
    /\ readable \in BOOLEAN
    /\ outcome = NoOutcome
    /\ written = {}
    /\ pc = [c \in Callers |-> "idle"]
    /\ buf = [c \in Callers |-> [statements |-> <<>>, printed |-> FALSE]]

\* one call of the service, ended as r = [text, written, outcome]; database
\* is recorded with the config
RecordGen(op, config, database, r) ==
    /\ ncalls < MaxIOCalls
    /\ ncalls' = ncalls + 1
    /\ file' = r.text
    /\ written' = r.written
    /\ outcome' = r.outcome
    /\ prev2' = prev
    /\ prev' = file
    /\ last2' = last
    /\ last' = Call(op, [name |-> config.name, path |-> config.path,
                         addValidation |-> config.addValidation,
                         fields |-> config.fields, database |-> database],
                    routerNameOf(config), routePathOf(config),
                    r.outcome.writes > 0)
    /\ UNCHANGED <<orig, readable, pc, buf>>

CallGenerateEndpoint ==
    \E config \in EndpointConfigs, database \in BOOLEAN :
        RecordGen("generateEndpoint", config, database,
                  generateEndpointCall(readable, file, written, config, database))

CallGenerateCRUD ==
    \E resourceName \in ResourceNames, fields \in BOOLEAN, database \in BOOLEAN :
        RecordGen("generateCRUD",
                  crudConfig(crudOperations(resourceName)[1], fields), database,
                  generateCRUDCall(readable, file, written, resourceName,
                                   fields, database))

NextGen == CallGenerateEndpoint \/ CallGenerateCRUD

SpecGen == InitGen /\ [][NextGen]_vars

\* ------------- the string-based updater (generators/router-updater.ts)
\* Here the text of routes.ts is kept as [exists, lines]: whether the file
\* is there and its lines, each one ended by a newline.

\* `import <name>Router from './<name>/<name>.routes.js';` as line 16
\* builds it, name being lower case already
LegacyImportLine(name) == [kind |-> "import", name |-> name, quote |-> "'"]

\* the same import with double quotes, as ts.createPrinter emits the
\* import addRoute creates, or as a formatter rewrites it
QuotedImportLine(name) == [kind |-> "import", name |-> name, quote |-> "\""]

\* import { Router } from 'express';
OtherImportLine == [kind |-> "import", name |-> NoName, quote |-> "'"]

\* `router.use('/<basePath>', <name>Router);` as line 27 builds it
LegacyUseLine(basePath, name) ==
    [kind |-> "use", basePath |-> basePath, name |-> name, quote |-> "'"]

\* the same registration with double quotes
QuotedUseLine(basePath, name) ==
    [kind |-> "use", basePath |-> basePath, name |-> name, quote |-> "\""]

\* export default router;
ExportLine == [kind |-> "export"]

BlankLine == [kind |-> "blank"]

OtherLine(text) == [kind |-> "other", text |-> text]

\* content.includes(line), for a statement that fills a line
includes(lines, line) == \E k \in 1 .. Len(lines) : lines[k] = line

\* the line holding content.lastIndexOf('import '), 0-based; -1 when the
\* text has no 'import '
lastIndexOfImport(lines) ==
    IF \E k \in 1 .. Len(lines) : lines[k].kind = "import"
    THEN (CHOOSE k \in 1 .. Len(lines) :
            /\ lines[k].kind = "import"
            /\ \A m \in 1 .. Len(lines) : lines[m].kind = "import" => m <= k) - 1
    ELSE -1

\* the line holding content.lastIndexOf('export default router;'), 0-based
lastIndexOfExport(lines) ==
    IF \E k \in 1 .. Len(lines) : lines[k] = ExportLine
    THEN (CHOOSE k \in 1 .. Len(lines) :
            /\ lines[k] = ExportLine
            /\ \A m \in 1 .. Len(lines) : lines[m] = ExportLine => m <= k) - 1
    ELSE -1

\* lines 19-21: the import goes after the end of the line of the last
\* 'import '; indexOf('\n', -1) searches from 0, so without any 'import '
\* it goes after the first line, and into an empty text it goes first
legacyInsertImport(lines, importStatement) ==
    LET lastImportIndex == lastIndexOfImport(lines)
        after == IF lastImportIndex # -1 THEN lastImportIndex + 1
                 ELSE IF Len(lines) = 0 THEN 0 ELSE 1
    IN  SubSeq(lines, 1, after) \o <<importStatement>>
        \o SubSeq(lines, after + 1, Len(lines))

\* lines 31-36: before the last 'export default router;' with an empty
\* line after it, else at the end after an empty line
legacyInsertRoute(lines, routeStatement) ==
    LET exportIndex == lastIndexOfExport(lines)
    IN  IF exportIndex # -1
        THEN SubSeq(lines, 1, exportIndex) \o <<routeStatement, BlankLine>>
             \o SubSeq(lines, exportIndex + 1, Len(lines))
        ELSE lines \o <<BlankLine, routeStatement>>

\* lines 25-26 and 47-48: routePath.split('/')[1] || name.toLowerCase()
legacyBasePath(name, config) ==
    IF replaceApiPrefix(config.path) = <<>> THEN toLowerCase(name)
    ELSE Head(replaceApiPrefix(config.path))

\* lines 40-50: the routes.ts written when there was none
legacyNewRoutes(name, config) ==
    << OtherImportLine,
       LegacyImportLine(toLowerCase(name)),
       BlankLine,
       OtherLine("const router = Router();"),
       BlankLine,
       OtherLine("// Health check"),
       OtherLine("router.get('/health', (req, res) => {"),
       OtherLine("  res.json({ status: 'ok', timestamp: new Date().toISOString() });"),
       OtherLine("});"),
       BlankLine,
       LegacyUseLine(legacyBasePath(name, config), toLowerCase(name)),
       BlankLine,
       ExportLine >>

\* updateMainRouter(name, config) of generators/router-updater.ts: the
\* routes.ts it writes
legacyUpdateMainRouter(content, name, config) ==
    IF content.exists
    THEN LET importStatement == LegacyImportLine(toLowerCase(name))
             routeStatement == LegacyUseLine(legacyBasePath(name, config),
                                             toLowerCase(name))
             withImport == IF ~includes(content.lines, importStatement)
                           THEN legacyInsertImport(content.lines, importStatement)
                           ELSE content.lines
             withRoute == IF ~includes(withImport, routeStatement)
                          THEN legacyInsertRoute(withImport, routeStatement)
                          ELSE withImport
         IN  [exists |-> TRUE, lines |-> withRoute]
    ELSE [exists |-> TRUE, lines |-> legacyNewRoutes(name, config)]

\* the lines the existing files of the model are made of
LegacyUniverse ==
    { OtherImportLine,
      QuotedImportLine("users"),
      QuotedUseLine("users", "users"),
      ExportLine,
      OtherLine("const router = Router();") }

LegacyPaths == { <<"api", "users">>, <<"api">> }

InitLegacy ==
    /\ \/ file = [exists |-> FALSE, lines |-> <<>>]
       \/ \E lines \in SeqsUpTo(LegacyUniverse, MaxLen) :
             file = [exists |-> TRUE, lines |-> lines]
    /\ orig = file
    /\ prev = file
    /\ prev2 = file
    /\ last = NoCall
    /\ last2 = NoCall
    /\ ncalls = 0
    /\ AuxInit

LegacyUpdateMainRouter ==
    \E name \in ResourceNames, path \in LegacyPaths :
        /\ file' = legacyUpdateMainRouter(file, name, [name |-> name, path |-> path])
        /\ Record(Call("legacyUpdateMainRouter", [name |-> name, path |-> path],
                       routerNameOf([name |-> name, path |-> path]),
                       <<legacyBasePath(name, [name |-> name, path |-> path])>>,
                       TRUE))

NextLegacy == LegacyUpdateMainRouter

SpecLegacy == InitLegacy /\ [][NextLegacy]_vars

\* ------------------------------------------------ vocabulary of the claims
Indexes(statements) == 1 .. Len(statements)

\* number of top-level imports whose default binding is routerName
ImportCount(text, routerName) ==
    Cardinality({ i \in Indexes(text.statements) :
        text.statements[i] = ImportDeclaration(routerName) })

\* number of statements router.use(routePath, routerName)
RegistrationCount(text, routePath, routerName) ==
    Cardinality({ i \in Indexes(text.statements) :
        text.statements[i] =
            PropertyCall("router", "use",
                         <<StringLiteral(routePath), Identifier(routerName)>>) })

\* export default form: an export assignment or an export with no clause
IsExportDefaultForm(s) ==
    s.kind = "ExportAssignment"
    \/ (s.kind = "ExportDeclaration" /\ ~s.hasExportClause)

\* C1: under the caller protocol, a router file that starts without an
\* import bound to n never holds more than one import bound to n, whatever
\* updateMainRouter calls are made (generateCRUD's four calls included).
C1_AtMostOneImportPerName ==
    \A n \in RouterNames :
        ImportCount(orig, n) = 0 => ImportCount(file, n) <= 1

\* C2: a second updateMainRouter call with the config of the call before it
\* finds both the import and the route, does not write, and leaves the file
\* as the first call left it.
C2_SecondUpdateIsNoOp ==
    (/\ last.op = "updateMainRouter"
     /\ last2.op = "updateMainRouter"
     /\ last.config = last2.config)
    => (/\ importExists(prev, last.routerName)
        /\ routeExists(prev, last.routePath)
        /\ ~last.wrote
        /\ file = prev)

C2_Witness ==
    /\ last.op = "updateMainRouter"
    /\ last2.op = "updateMainRouter"
    /\ last.config = last2.config
    /\ last2.wrote
    /\ ~importExists(prev2, last.routerName)
    /\ ~last.wrote
    /\ file = prev

\* C3 (P1): right after addRoute(file, request), importExists(file,
\* request.routerName) is true, whatever the file looked like before.
C3_ImportExistsAfterAdd ==
    last.op = "addRoute" => importExists(file, last.routerName)

\* addRoute on a file without that import whose export comes first and
\* whose imports come after it
C3_Witness ==
    /\ last.op = "addRoute"
    /\ ~importExists(prev, last.routerName)
    /\ Len(prev.statements) >= 2
    /\ IsExportDefaultForm(prev.statements[1])
    /\ isImportDeclaration(prev.statements[Len(prev.statements)])
    /\ importExists(file, last.routerName)

\* C4 (P2): right after addRoute(file, request), routeExists(file,
\* request.routePath) is true, whatever the file looked like before.
C4_RouteExistsAfterAdd ==
    last.op = "addRoute" => routeExists(file, last.routePath)

\* addRoute of a path not registered before, on a file without export
C4_Witness ==
    /\ last.op = "addRoute"
    /\ ~routeExists(prev, last.routePath)
    /\ \A i \in Indexes(prev.statements) : ~IsExportDefaultForm(prev.statements[i])
    /\ Len(prev.statements) >= 1
    /\ routeExists(file, last.routePath)

\* C5: addRoute does not deduplicate: it adds exactly one import bound to
\* request.routerName and exactly one router.use(request.routePath,
\* request.routerName), also when they were there already.
C5_AddRouteAddsExactlyOne ==
    last.op = "addRoute" =>
        /\ ImportCount(file, last.routerName) = ImportCount(prev, last.routerName) + 1
        /\ RegistrationCount(file, last.routePath, last.routerName)
             = RegistrationCount(prev, last.routePath, last.routerName) + 1
        /\ Len(file.statements) = Len(prev.statements) + 2

\* the same request added twice: two imports and two registrations coexist
C5_Witness ==
    /\ last.op = "addRoute"
    /\ last2 = last
    /\ ImportCount(prev2, last.routerName) = 0
    /\ RegistrationCount(prev2, last.routePath, last.routerName) = 0
    /\ ImportCount(file, last.routerName) = 2
    /\ RegistrationCount(file, last.routePath, last.routerName) = 2

\* index in the file after addRoute of the statement that had index k
\* before, when the new statements sit at indexes i and j of the new file
Shift(k, i, j) ==
    LET lo == IF i < j THEN i ELSE j
        hi == IF i < j THEN j ELSE i
        a == IF k >= lo THEN k + 1 ELSE k
    IN  IF a >= hi THEN a + 1 ELSE a

\* after is before with importToAdd put at index i and routeToAdd at index j
IsInsertion(before, after, importToAdd, routeToAdd, i, j) ==
    /\ i # j
    /\ Len(after) = Len(before) + 2
    /\ after[i] = importToAdd
    /\ after[j] = routeToAdd
    /\ \A k \in Indexes(before) : after[Shift(k, i, j)] = before[k]

HasImport(statements) ==
    \E k \in Indexes(statements) : isImportDeclaration(statements[k])

LastImport(statements) ==
    CHOOSE k \in Indexes(statements) :
        /\ isImportDeclaration(statements[k])
        /\ \A m \in Indexes(statements) :
               isImportDeclaration(statements[m]) => m <= k

EndsWithExport(statements) ==
    /\ Len(statements) >= 1
    /\ IsExportDefaultForm(statements[Len(statements)])

\* the new import and the new registration both sit strictly between the
\* last import the file had and its last statement
PlacedBetweenLastImportAndEnd(before, after, update) ==
    \E i, j \in Indexes(after) :
        /\ IsInsertion(before, after, ImportDeclaration(update.routerName),
                       PropertyCall("router", "use",
                           <<StringLiteral(update.routePath),
                             Identifier(update.routerName)>>), i, j)
        /\ i > Shift(LastImport(before), i, j)
        /\ i < Shift(Len(before), i, j)
        /\ j > Shift(LastImport(before), i, j)
        /\ j < Shift(Len(before), i, j)

LastUpdate == [routerName |-> last.routerName, routePath |-> last.routePath]

\* C6 as claimed (P4): after addRoute on a file with an import and a default
\* export as last statement, the new import and the new registration are
\* after the last old import and before that export.
C6_PlacementAsClaimed ==
    (/\ last.op = "addRoute"
     /\ HasImport(prev.statements)
     /\ EndsWithExport(prev.statements))
    => PlacedBetweenLastImportAndEnd(prev.statements, file.statements, LastUpdate)

\* C6 amended: the same, for a file whose last statement is its only
\* statement of export-default form.
C6_PlacementSingleExport ==
    (/\ last.op = "addRoute"
     /\ HasImport(prev.statements)
     /\ EndsWithExport(prev.statements)
     /\ \A k \in 1 .. Len(prev.statements) - 1 :
            ~IsExportDefaultForm(prev.statements[k]))
    => PlacedBetweenLastImportAndEnd(prev.statements, file.statements, LastUpdate)

\* two imports, a statement, the export: the conventional shape
C6_Witness ==
    /\ last.op = "addRoute"
    /\ Len(prev.statements) >= 3
    /\ isImportDeclaration(prev.statements[1])
    /\ isImportDeclaration(prev.statements[2])
    /\ ~isImportDeclaration(prev.statements[3])
    /\ EndsWithExport(prev.statements)
    /\ \A k \in 1 .. Len(prev.statements) - 1 :
            ~IsExportDefaultForm(prev.statements[k])
    /\ PlacedBetweenLastImportAndEnd(prev.statements, file.statements, LastUpdate)

\* C7: when the last statement of the file is of export-default form, after
\* addRoute it is still the last statement and the new registration is
\* before it (also when that export is the first or the only statement).
C7_ExportStaysLast ==
    (/\ last.op = "addRoute"
     /\ EndsWithExport(prev.statements))
    => \E i, j \in Indexes(file.statements) :
          /\ IsInsertion(prev.statements, file.statements,
                         ImportDeclaration(last.routerName),
                         PropertyCall("router", "use",
                             <<StringLiteral(last.routePath),
                               Identifier(last.routerName)>>), i, j)
          /\ Shift(Len(prev.statements), i, j) = Len(file.statements)
          /\ j < Len(file.statements)

\* a call <object>.<method>(<path>, <handler>): the shape of a registration
IsRouteRegistration(s) ==
    /\ s.kind = "ExpressionStatement"
    /\ s.isCall
    /\ s.isPropertyAccess
    /\ Len(s.arguments) >= 2

IsOther(s) == s.kind # "ImportDeclaration" /\ ~IsRouteRegistration(s)

Others(text) == SelectSeq(text.statements, IsOther)

\* C8 (P3): the statements that are neither imports nor registrations stay
\* the same, in the same order, through every addRoute and removeRoute call.
C8_OthersKeepTheirOrder == Others(file) = Others(orig)

\* an addRoute then a removeRoute that removed something, around three
\* other statements
C8_Witness ==
    /\ last.op = "removeRoute"
    /\ last2.op = "addRoute"
    /\ Len(file.statements) < Len(prev.statements)
    /\ Len(Others(orig)) = 3
    /\ Others(orig)[1] # Others(orig)[2]
    /\ Others(file) = Others(orig)

AddThenRemove ==
    /\ last.op = "removeRoute"
    /\ last2.op = "addRoute"
    /\ last.routerName = last2.routerName

\* C9 as claimed (P6): after addRoute(file, req) then removeRoute(file,
\* req.routerName), importExists(file, req.routerName) and routeExists(file,
\* req.routePath) are both false.
C9_RemovalInverseAsClaimed ==
    AddThenRemove =>
        /\ ~importExists(file, last.routerName)
        /\ ~routeExists(file, last2.routePath)

\* a use-registration of routePath that removeRoute(routerName) leaves alone
HasForeignUse(text, routePath, routerName) ==
    \E k \in Indexes(text.statements) :
        LET s == text.statements[k] IN
        /\ s.kind = "ExpressionStatement"
        /\ s.isCall
        /\ s.isPropertyAccess
        /\ s.name = "use"
        /\ Len(s.arguments) >= 1
        /\ s.arguments[1] = StringLiteral(routePath)
        /\ ~(Len(s.arguments) >= 2 /\ s.arguments[2] = Identifier(routerName))

\* C9 amended: importExists is false afterwards; routeExists is false
\* afterwards when the file before addRoute had no use-registration of
\* req.routePath other than those whose second argument is req.routerName.
C9_RemovalInverse ==
    AddThenRemove =>
        /\ ~importExists(file, last.routerName)
        /\ (~HasForeignUse(prev2, last2.routePath, last.routerName)
               => ~routeExists(file, last2.routePath))

\* the file had the import and the registration of req already
C9_Witness ==
    /\ AddThenRemove
    /\ importExists(prev2, last.routerName)
    /\ routeExists(prev2, last2.routePath)
    /\ ~HasForeignUse(prev2, last2.routePath, last.routerName)
    /\ importExists(prev, last.routerName)
    /\ ~importExists(file, last.routerName)
    /\ ~routeExists(file, last2.routePath)

\* what removeRoute(file, routerName) is to remove
IsRemovalTarget(s, routerName) ==
    \/ s = ImportDeclaration(routerName)
    \/ (IsRouteRegistration(s) /\ s.arguments[2] = Identifier(routerName))

TargetCount(text, routerName) ==
    Cardinality({ k \in Indexes(text.statements) :
        IsRemovalTarget(text.statements[k], routerName) })

\* C10: removeRoute(file, n) removes every import bound to n and every
\* registration whose second argument is n, and leaves exactly the other
\* statements, in their order.
C10_RemoveRouteRemovesAll ==
    last.op = "removeRoute" =>
        LET NotTarget(s) == ~IsRemovalTarget(s, last.routerName)
        IN  /\ TargetCount(file, last.routerName) = 0
            /\ file.statements = SelectSeq(prev.statements, NotTarget)

\* two imports and a non-use registration of n go, the rest stays
C10_Witness ==
    /\ last.op = "removeRoute"
    /\ ImportCount(prev, last.routerName) >= 2
    /\ TargetCount(prev, last.routerName) >= 3
    /\ Len(file.statements) >= 1
    /\ TargetCount(file, last.routerName) = 0
    /\ Len(file.statements) = Len(prev.statements) - TargetCount(prev, last.routerName)

IsQuery == last.op = "importExists" \/ last.op = "routeExists"

\* C11 (P5): importExists and routeExists never write the file: its content
\* after the query is the content before it, whatever the answer.
C11_QueriesLeaveTheFile ==
    IsQuery => (file = prev /\ outcome.writes = 0 /\ ~last.wrote)

\* a query that answered true on a file no printer has laid out
C11_Witness ==
    /\ last.op = "importExists"
    /\ outcome.status = "ok"
    /\ outcome.result
    /\ ~prev.printed
    /\ Len(prev.statements) >= 2
    /\ file = prev

\* C14 as claimed: on a malformed file addRoute and removeRoute end with an
\* error and do not write the file.
C14_MalformedAborts ==
    (/\ last.op \in {"addRoute", "removeRoute"}
     /\ readable
     /\ IsMalformed(prev))
    => (outcome.status = "error" /\ outcome.writes = 0 /\ file = prev)

\* C15: when the file cannot be read, addRoute, removeRoute, importExists
\* and routeExists each end with an error after one read, without an
\* answer and without a write.
C15_ReadFailurePropagates ==
    (last.op # "none" /\ ~readable)
    => (/\ outcome.status = "error"
        /\ outcome.reads = 1
        /\ outcome.writes = 0
        /\ file = prev)

\* each of the four calls on an unreadable file
C15_Witness ==
    /\ ~readable
    /\ last.op = "importExists"
    /\ importExists(prev, last.routerName)
    /\ outcome.status = "error"
    /\ outcome.reads = 1

\* some top-level statement is a call on a property named use whose first
\* argument is the string literal routePath
HasUseOfPath(text, routePath) ==
    \E k \in Indexes(text.statements) :
        LET s == text.statements[k] IN
        /\ s.kind = "ExpressionStatement"
        /\ s.isCall
        /\ s.isPropertyAccess
        /\ s.name = "use"
        /\ Len(s.arguments) >= 1
        /\ s.arguments[1] = StringLiteral(routePath)

\* C20: routeExists(file, p) is true exactly when some top-level statement
\* is a call on a property named use with the string literal p as first
\* argument; the receiver and the handler do not matter.
C20_RouteExistsIffUseOfPath ==
    (last.op = "routeExists" /\ outcome.status = "ok")
    => (outcome.result <=> HasUseOfPath(prev, last.routePath))

\* true because of app.use(p, adminRouter) alone
C20_Witness ==
    /\ last.op = "routeExists"
    /\ outcome.status = "ok"
    /\ outcome.result
    /\ \A k \in Indexes(prev.statements) :
          (prev.statements[k].kind = "ExpressionStatement"
           /\ prev.statements[k].isPropertyAccess
           /\ prev.statements[k].name = "use")
          => prev.statements[k].object = "app"

BothDone == \A c \in Callers : pc[c] = "done"

\* the caller whose write came last, and the other one
LastWriter == CHOOSE c \in Callers : RaceUpdate(c).routerName = last.routerName

FirstWriter == CHOOSE c \in Callers : c # LastWriter

\* C12: two unsynchronized addRoute calls race: when both read before
\* either writes, both complete and the file holds the last writer's import
\* and registration only; the other caller's insertion is lost.
C12_LastWriterWins ==
    (BothDone /\ buf["A"] = orig /\ buf["B"] = orig)
    => LET w == RaceUpdate(LastWriter)
           o == RaceUpdate(FirstWriter)
       IN  /\ outcome.status = "ok"
           /\ last2.op = "addRoute"
           /\ ImportCount(file, w.routerName) = ImportCount(orig, w.routerName) + 1
           /\ RegistrationCount(file, w.routePath, w.routerName)
                = RegistrationCount(orig, w.routePath, w.routerName) + 1
           /\ ImportCount(file, o.routerName) = ImportCount(orig, o.routerName)
           /\ RegistrationCount(file, o.routePath, o.routerName)
                = RegistrationCount(orig, o.routePath, o.routerName)
           /\ Len(file.statements) = Len(orig.statements) + 2

\* both reads, then both writes: the first writer's import is gone, though
\* the file held it between the two writes
C12_Witness ==
    /\ BothDone
    /\ buf["A"] = orig
    /\ buf["B"] = orig
    /\ importExists(prev, RaceUpdate(FirstWriter).routerName)
    /\ ~importExists(file, RaceUpdate(FirstWriter).routerName)
    /\ ~routeExists(file, RaceUpdate(FirstWriter).routePath)
    /\ importExists(file, RaceUpdate(LastWriter).routerName)

NewImport == ImportDeclaration(last.routerName)

NewRegistration ==
    PropertyCall("router", "use",
                 <<StringLiteral(last.routePath), Identifier(last.routerName)>>)

\* C13: sequential calls compose: after addRoute(file, A) and then
\* addRoute(file, B), with different names and paths, the file holds the
\* import and the registration of both and both queries are true for both.
C13_SequentialCallsCompose ==
    (/\ last.op = "addRoute"
     /\ last2.op = "addRoute"
     /\ last.routerName # last2.routerName
     /\ last.routePath # last2.routePath)
    => (/\ importExists(file, last.routerName)
        /\ routeExists(file, last.routePath)
        /\ importExists(file, last2.routerName)
        /\ routeExists(file, last2.routePath)
        /\ ImportCount(file, last2.routerName)
             = ImportCount(prev2, last2.routerName) + 1
        /\ RegistrationCount(file, last2.routePath, last2.routerName)
             = RegistrationCount(prev2, last2.routePath, last2.routerName) + 1
        /\ ImportCount(file, last.routerName)
             = ImportCount(prev2, last.routerName) + 1
        /\ Len(file.statements) = Len(prev2.statements) + 4)

\* neither was in the file before the two calls
C13_Witness ==
    /\ last.op = "addRoute"
    /\ last2.op = "addRoute"
    /\ last.routerName # last2.routerName
    /\ last.routePath # last2.routePath
    /\ ~importExists(prev2, last.routerName)
    /\ ~importExists(prev2, last2.routerName)
    /\ ~routeExists(prev2, last.routePath)
    /\ ~routeExists(prev2, last2.routePath)
    /\ Len(prev2.statements) >= 2
    /\ importExists(file, last.routerName)
    /\ importExists(file, last2.routerName)
    /\ routeExists(file, last.routePath)
    /\ routeExists(file, last2.routePath)

HasExportDefaultForm(statements) ==
    \E k \in Indexes(statements) : IsExportDefaultForm(statements[k])

\* C17: on a file without a statement of export-default form, addRoute puts
\* the new registration last, after every original statement and after the
\* new import.
C17_NoExportAppendsRegistration ==
    (last.op = "addRoute" /\ ~HasExportDefaultForm(prev.statements))
    => (/\ file.statements[Len(file.statements)] = NewRegistration
        /\ \E i \in 1 .. Len(file.statements) - 1 :
              IsInsertion(prev.statements, file.statements, NewImport,
                          NewRegistration, i, Len(file.statements)))

\* an import, a statement, an import, no export
C17_Witness ==
    /\ last.op = "addRoute"
    /\ ~HasExportDefaultForm(prev.statements)
    /\ Len(prev.statements) = 3
    /\ isImportDeclaration(prev.statements[1])
    /\ ~isImportDeclaration(prev.statements[2])
    /\ isImportDeclaration(prev.statements[3])
    /\ file.statements = prev.statements \o <<NewImport, NewRegistration>>

\* what the first-export rule does with the registration: in front of the
\* first statement of export-default form when that is not statement 0, at
\* the end otherwise
WithRegistration(statements, registration) ==
    IF \E k \in 2 .. Len(statements) :
           /\ IsExportDefaultForm(statements[k])
           /\ \A m \in 1 .. k - 1 : ~IsExportDefaultForm(statements[m])
    THEN LET k == CHOOSE k \in 2 .. Len(statements) :
                    /\ IsExportDefaultForm(statements[k])
                    /\ \A m \in 1 .. k - 1 : ~IsExportDefaultForm(statements[m])
         IN SubSeq(statements, 1, k - 1) \o <<registration>>
              \o SubSeq(statements, k, Len(statements))
    ELSE Append(statements, registration)

\* C18: on a file without import, addRoute puts the new import first,
\* wherever the registration goes; without import and export the result is
\* [import] ++ statements ++ [registration], [import, registration] for the
\* empty file.
C18_NoImportPrependsImport ==
    (last.op = "addRoute" /\ ~HasImport(prev.statements))
    => (/\ file.statements
             = <<NewImport>> \o WithRegistration(prev.statements, NewRegistration)
        /\ ~HasExportDefaultForm(prev.statements)
             => file.statements
                  = <<NewImport>> \o prev.statements \o <<NewRegistration>>
        /\ prev.statements = <<>>
             => file.statements = <<NewImport, NewRegistration>>)

\* no import, and an export that is not the first statement
C18_Witness ==
    /\ last.op = "addRoute"
    /\ ~HasImport(prev.statements)
    /\ Len(prev.statements) = 3
    /\ IsExportDefaultForm(prev.statements[3])
    /\ ~IsExportDefaultForm(prev.statements[1])
    /\ file.statements[1] = NewImport
    /\ file.statements[4] = NewRegistration

\* k imports first, then statements that are neither imports nor exports,
\* then one statement of export-default form
IsConventional(statements, k) ==
    /\ k >= 1
    /\ k < Len(statements)
    /\ \A m \in 1 .. k : isImportDeclaration(statements[m])
    /\ \A m \in k + 1 .. Len(statements) - 1 :
          /\ ~isImportDeclaration(statements[m])
          /\ ~IsExportDefaultForm(statements[m])
    /\ IsExportDefaultForm(statements[Len(statements)])

UseRegistrations(statements) ==
    { m \in Indexes(statements) :
        /\ statements[m].kind = "ExpressionStatement"
        /\ statements[m].isCall
        /\ statements[m].isPropertyAccess
        /\ statements[m].object = "router"
        /\ statements[m].name = "use" }

\* C19: on a conventional file (k >= 1 imports, then statements with m
\* router.use registrations, then the one default export) the new import is
\* the (k+1)-th and last import, right after the k-th, the new registration
\* is the (m+1)-th and last, right before the export, and the original
\* statements are intact.
C19_ConventionalPlacement ==
    last.op = "addRoute" =>
        \A k \in Indexes(prev.statements) :
            IsConventional(prev.statements, k) =>
                LET n == Len(prev.statements) IN
                /\ file.statements
                     = SubSeq(prev.statements, 1, k) \o <<NewImport>>
                       \o SubSeq(prev.statements, k + 1, n - 1)
                       \o <<NewRegistration>> \o <<prev.statements[n]>>
                /\ \A m \in Indexes(file.statements) :
                      isImportDeclaration(file.statements[m]) => m <= k + 1
                /\ \A m \in UseRegistrations(file.statements) : m <= n + 1
                /\ Cardinality(UseRegistrations(file.statements))
                     = Cardinality(UseRegistrations(prev.statements)) + 1

\* two imports, a registration, the export
C19_Witness ==
    /\ last.op = "addRoute"
    /\ Len(prev.statements) >= 4
    /\ IsConventional(prev.statements, 2)
    /\ Cardinality(UseRegistrations(prev.statements)) >= 1
    /\ file.statements[3] = NewImport
    /\ file.statements[Len(file.statements) - 1] = NewRegistration
    /\ IsExportDefaultForm(file.statements[Len(file.statements)])

\* the files steps 1 to 6 of generateEndpoint are to have written for the
\* recorded call
ExpectedFiles ==
    LET n == toLowerCase(last.config.name)
        repo == last.config.database /\ last.config.fields
    IN  {n \o ".controller.ts", n \o ".handler.ts", n \o ".routes.ts"}
        \cup (IF last.config.addValidation THEN {n \o ".validator.ts"} ELSE {})
        \cup (IF repo THEN {n \o ".repository.ts", n \o ".factory.ts"} ELSE {})

\* C16: when the router update fails inside generateEndpoint, the files
\* written before it stay written, routes.ts is not modified and the call
\* fails with that error; generateCRUD then runs no further operation.
C16_NoRollbackOnRouterFailure ==
    (last.op \in {"generateEndpoint", "generateCRUD"} /\ ~readable)
    => (/\ outcome.status = "error"
        /\ file = prev
        /\ ExpectedFiles \subseteq written
        /\ last.op = "generateCRUD" => outcome.operations = 1)

\* generateCRUD with a database and fields on a project whose routes.ts
\* cannot be read
C16_Witness ==
    /\ last.op = "generateCRUD"
    /\ ~readable
    /\ last.config.database
    /\ last.config.fields
    /\ outcome.status = "error"
    /\ outcome.operations = 1
    /\ Cardinality(written) = 6
    /\ file = prev

\* some top-level import statement has routerName as its default binding
HasDefaultImport(text, routerName) ==
    \E k \in Indexes(text.statements) :
        /\ text.statements[k].kind = "ImportDeclaration"
        /\ text.statements[k].name = routerName

\* C21: importExists(file, n) is true exactly when some top-level import
\* statement binds n as its default name; an import nested in another
\* statement and a named or namespace binding of n do not count.
C21_ImportExistsIffDefaultImport ==
    (last.op = "importExists" /\ outcome.status = "ok")
    => (outcome.result <=> HasDefaultImport(prev, last.routerName))

\* false although the file binds the name as a named import or holds a
\* nested import of it
C21_Witness ==
    /\ last.op = "importExists"
    /\ outcome.status = "ok"
    /\ ~outcome.result
    /\ \E k \in Indexes(prev.statements) :
          \/ prev.statements[k] = NamedImportDeclaration(last.routerName)
          \/ prev.statements[k] = BlockStatement(<<ImportDeclaration(last.routerName)>>)

ExportForms(statements) ==
    { k \in Indexes(statements) : IsExportDefaultForm(statements[k]) }

Imports(statements) ==
    { k \in Indexes(statements) : isImportDeclaration(statements[k]) }

FirstExportForm(statements) ==
    CHOOSE k \in ExportForms(statements) :
        \A m \in ExportForms(statements) : k <= m

\* C22: with several statements of export-default form the registration
\* goes immediately before the first of them (when that one is not the
\* first statement); with several imports the new import goes immediately
\* after the last of them, wherever it is.
C22_FirstExportLastImport ==
    last.op = "addRoute" =>
        \E i, j \in Indexes(file.statements) :
            /\ IsInsertion(prev.statements, file.statements,
                           NewImport, NewRegistration, i, j)
            /\ (/\ Cardinality(ExportForms(prev.statements)) >= 2
                /\ FirstExportForm(prev.statements) > 1)
               => j + 1 = Shift(FirstExportForm(prev.statements), i, j)
            /\ Cardinality(Imports(prev.statements)) >= 2
               => i = Shift(LastImport(prev.statements), i, j) + 1

\* addRoute on a file with two imports and two exports, the first export
\* not being the first statement
C22_Witness ==
    /\ last.op = "addRoute"
    /\ Cardinality(ExportForms(prev.statements)) >= 2
    /\ FirstExportForm(prev.statements) > 1
    /\ Cardinality(Imports(prev.statements)) >= 2

\* C23: a call is one read followed by one write: a caller only moves from
\* idle to read to done, what it read is set by its read step alone, and
\* the file changes only in the write step of a caller that has read, to
\* the transform of what that caller read.
C23_ReadThenWrite ==
    [][/\ \A c \in Callers :
            pc'[c] # pc[c] =>
                \/ pc[c] = "idle" /\ pc'[c] = "read"
                \/ pc[c] = "read" /\ pc'[c] = "done"
       /\ \A c \in Callers :
            buf'[c] # buf[c] =>
                /\ pc[c] = "idle" /\ pc'[c] = "read"
                /\ buf'[c] = file
                /\ file' = file
       /\ file' # file =>
            \E c \in Callers :
                /\ pc[c] = "read" /\ pc'[c] = "done"
                /\ file' = PipelineTransform(c, buf[c])
                /\ ncalls' = ncalls + 1]_vars

\* removeRoute ran whole between the read and the write of addRoute, and
\* addRoute then wrote the transform of the text it had read before
C23_Witness ==
    /\ BothDone
    /\ last.op = "addRoute"
    /\ last2.op = "removeRoute"
    /\ buf["A"] = orig
    /\ prev # orig
    /\ file = PipelineTransform("A", orig)

\* the file is before with the new import put in ahead of the new
\* registration
ImportPutBeforeRegistration(before, after) ==
    \E i, j \in Indexes(after) :
        /\ i < j
        /\ IsInsertion(before, after, NewImport, NewRegistration, i, j)

\* C24 as claimed: in the file addRoute produces the new import precedes
\* the new registration, whatever the shape of the input file.
C24_ImportFirstAsClaimed ==
    last.op = "addRoute" =>
        ImportPutBeforeRegistration(prev.statements, file.statements)

NoImportAfterFirstExport(statements) ==
    \/ ExportForms(statements) = {}
    \/ \A k \in Imports(statements) : k < FirstExportForm(statements)

\* C24 amended: in the file addRoute produces the new import precedes the
\* new registration, for every input file in which no import comes after
\* the first statement of export-default form.
C24_ImportFirst ==
    (last.op = "addRoute" /\ NoImportAfterFirstExport(prev.statements))
    => ImportPutBeforeRegistration(prev.statements, file.statements)

\* the last import is the statement right before the export: both new
\* statements are pushed in the same iteration of the loop
C24_Witness ==
    /\ last.op = "addRoute"
    /\ Imports(prev.statements) # {}
    /\ ExportForms(prev.statements) # {}
    /\ NoImportAfterFirstExport(prev.statements)
    /\ LastImport(prev.statements) + 1 = FirstExportForm(prev.statements)
    /\ ImportPutBeforeRegistration(prev.statements, file.statements)

\* no two router.use registrations of the text have the same path argument
NoDuplicateUsePath(text) ==
    \A m, n \in UseRegistrations(text.statements) :
        (/\ m # n
         /\ Len(text.statements[m].arguments) >= 1
         /\ Len(text.statements[n].arguments) >= 1)
        => text.statements[m].arguments[1] # text.statements[n].arguments[1]

\* C25: from a router file in which no two use-registrations have the same
\* path, no sequence of updateMainRouter calls produces a file with two
\* router.use registrations of the same path.
C25_NoDuplicateUsePath ==
    NoDuplicateUsePath(orig) => NoDuplicateUsePath(file)

\* a call statement, whatever its callee, whose second argument is the
\* identifier routerName
IsCallWithSecondArgument(s, routerName) ==
    /\ s.kind = "ExpressionStatement"
    /\ s.isCall
    /\ Len(s.arguments) >= 2
    /\ s.arguments[2] = Identifier(routerName)

\* the text has no import bound to routerName and no call whose second
\* argument is routerName
IsFreeOf(text, routerName) ==
    \A k \in Indexes(text.statements) :
        /\ text.statements[k] # ImportDeclaration(routerName)
        /\ ~IsCallWithSecondArgument(text.statements[k], routerName)

\* C26: round trip: on a file with no import bound to n and no call whose
\* second argument is n, addRoute with routerName n followed by
\* removeRoute(n) gives back the original statement sequence.
C26_AddRemoveRoundTrip ==
    (AddThenRemove /\ IsFreeOf(prev2, last.routerName))
    => file.statements = prev2.statements

\* the round trip on a file that has an import and an export
C26_Witness ==
    /\ AddThenRemove
    /\ IsFreeOf(prev2, last.routerName)
    /\ Imports(prev2.statements) # {}
    /\ ExportForms(prev2.statements) # {}
    /\ Len(prev.statements) = Len(prev2.statements) + 2
    /\ file.statements = prev2.statements

\* C27: addRoute removes, replaces and reorders nothing: its output has two
\* statements more than its input, and without the new import and the new
\* registration it is the input sequence.
C27_AddRouteKeepsEveryStatement ==
    last.op = "addRoute" =>
        \E i, j \in Indexes(file.statements) :
            IsInsertion(prev.statements, file.statements,
                        NewImport, NewRegistration, i, j)

\* addRoute on three statements of which none is an import, a registration
\* or an export of default form the updater looks for
C27_Witness ==
    /\ last.op = "addRoute"
    /\ Len(prev.statements) = 3
    /\ \E k \in Indexes(prev.statements) :
          prev.statements[k] = ExportDeclaration(TRUE)
    /\ \E k \in Indexes(prev.statements) :
          prev.statements[k] = OtherStatement(1)
    /\ \E k \in Indexes(prev.statements) :
          prev.statements[k].kind = "ExpressionStatement"
          /\ prev.statements[k].name = "get"
    /\ Len(file.statements) = 5

\* how many times statement s occurs in the text
Occurrences(text, s) ==
    Cardinality({ k \in Indexes(text.statements) : text.statements[k] = s })

IsCallStatement(s) == s.kind = "ExpressionStatement" /\ s.isCall

\* a call on a property named use, the form routeExists looks for
IsUseCall(s) == IsCallStatement(s) /\ s.isPropertyAccess /\ s.name = "use"

\* C28 as claimed: removeRoute(file, n) removes a call statement only when
\* it is a call on a property named use; any other call is kept.
C28_RemovesOnlyUseAsClaimed ==
    (last.op = "removeRoute" /\ outcome.status = "ok")
    => \A k \in Indexes(prev.statements) :
          (IsCallStatement(prev.statements[k]) /\ ~IsUseCall(prev.statements[k]))
          => Occurrences(file, prev.statements[k])
                = Occurrences(prev, prev.statements[k])

\* C28 amended: removeRoute(file, n) removes a call statement only when it
\* is a call on a property, of any name, whose second argument is the
\* identifier n: router.get(path, n) goes like router.use(path, n), every
\* other call is kept.
C28_RemovesPropertyCallsOfName ==
    (last.op = "removeRoute" /\ outcome.status = "ok")
    => \A k \in Indexes(prev.statements) :
          LET s == prev.statements[k] IN
          IsCallStatement(s) =>
              IF s.isPropertyAccess /\ IsCallWithSecondArgument(s, last.routerName)
              THEN Occurrences(file, s) = 0
              ELSE Occurrences(file, s) = Occurrences(prev, s)

\* router.get(path, n) is removed while the plain call use(path, n) stays
C28_Witness ==
    /\ last.op = "removeRoute"
    /\ outcome.status = "ok"
    /\ \E k \in Indexes(prev.statements) :
          /\ IsCallStatement(prev.statements[k])
          /\ prev.statements[k].isPropertyAccess
          /\ prev.statements[k].name = "get"
          /\ IsCallWithSecondArgument(prev.statements[k], last.routerName)
    /\ \E k \in Indexes(prev.statements) :
          /\ IsCallStatement(prev.statements[k])
          /\ ~prev.statements[k].isPropertyAccess
          /\ IsCallWithSecondArgument(prev.statements[k], last.routerName)
    /\ Len(file.statements) = 1
    /\ ~file.statements[1].isPropertyAccess

\* two removeRoute calls in a row with the same name
RemovedTwice ==
    /\ last.op = "removeRoute"
    /\ last2.op = "removeRoute"
    /\ last.routerName = last2.routerName

\* the text has no import bound to routerName and no call on a property
\* whose second argument is routerName
HasNoTarget(text, routerName) == TargetCount(text, routerName) = 0

\* C29: removeRoute is idempotent on the statement sequence: applied twice
\* it gives the statements it gives applied once, and applied to a file with
\* no import bound to n and no call whose second argument is n it leaves
\* the statement sequence as it is.
C29_RemoveRouteIdempotent ==
    /\ RemovedTwice => file.statements = prev.statements
    /\ (last.op = "removeRoute" /\ HasNoTarget(prev, last.routerName))
       => file.statements = prev.statements

\* the first removal took statements out, the second one none
C29_Witness ==
    /\ RemovedTwice
    /\ Len(prev.statements) < Len(prev2.statements)
    /\ Len(prev.statements) >= 1
    /\ file.statements = prev.statements

\* the same legacy call made twice in a row
LegacyTwice ==
    /\ last.op = "legacyUpdateMainRouter"
    /\ last2 = last

\* lines importing the router of the last call, in either quoting
LegacyImportLines ==
    { k \in 1 .. Len(file.lines) :
        /\ file.lines[k].kind = "import"
        /\ file.lines[k].name = toLowerCase(last.config.name) }

\* lines registering the router of the last call under its base path
LegacyUseLines ==
    { k \in 1 .. Len(file.lines) :
        /\ file.lines[k].kind = "use"
        /\ file.lines[k].name = toLowerCase(last.config.name)
        /\ file.lines[k].basePath = Head(last.routePath) }

\* C30: the legacy updateMainRouter is idempotent: after two calls with the
\* same name and config routes.ts is as the first call left it, with
\* exactly one import line for the router and exactly one router.use line
\* for its base path, placed before the last export default router line.
C30_LegacyIdempotent ==
    LegacyTwice =>
        /\ file = prev
        /\ Cardinality(LegacyImportLines) = 1
        /\ Cardinality(LegacyUseLines) = 1
        /\ lastIndexOfExport(file.lines) # -1
           => \A k \in LegacyUseLines : k - 1 < lastIndexOfExport(file.lines)

====
